---- MODULE Spec2Model ----
(***************************************************************************)
(* Model of Assets/Scripts/Advanced/AdvancedSystems.cpp: the skill ledger  *)
(* (SkillSystem), the enemy decision unit (EnemyAIBehavior) and the damage *)
(* formula.                                                                *)
(*                                                                         *)
(* A C++ float is modelled as a fixed-point number: the integer v stands   *)
(* for the value v / Q.  Every input drawn below is a whole number or a    *)
(* multiple of 1/Q, and Q is chosen so that the float constants of the     *)
(* source (0.01f, 0.2f, 1.5f) are multiples of 1/Q, which makes every      *)
(* product the model computes exact.  Float rounding is not modelled.      *)
(***************************************************************************)
EXTENDS Integers, Sequences, FiniteSets

\* ------------------------------------------------------------ fixed point

\* Denominator of the fixed-point representation of float.
Q == 200

\* The float with whole value n.
F(n) == n * Q

\* a * b on floats.
FMul(a, b) == (a * b) \div Q

\* a / b on floats (b # 0).
FDiv(a, b) == (a * Q) \div b

\* std::max / std::min
Max(a, b) == IF a < b THEN b ELSE a

Min(a, b) == IF b < a THEN b ELSE a

\* ------------------------------------------------------------ bounds

\* UpdateCooldowns / RegenerateMana are called with deltaTime in 0..MaxDelta.
MaxDelta == 2

\* RegenerateMana is called with regenRate in {0, 5, .., 5 * MaxRate}.
MaxRate == 2

\* TakeDamage / Heal are called with an amount in 0..MaxAmount.
MaxAmount == 3

\* CalculateDamage is called with baseAttackPower in 0..MaxPower.
MaxPower == 9

\* An out-of-bounds read of the element table yields any multiple of 0.5
\* in -MaxStray/2 .. MaxStray/2.
MaxStray == 6

\* Missions have targetCount in 0..MaxTargets and targetsEliminated in
\* 0..MaxTargets + 2.
MaxTargets == 10

VARIABLES
    skills,        \* SkillSystem::skills, a sequence of Skill records
    currentMana,   \* SkillSystem::currentMana
    maxMana,       \* SkillSystem::maxMana
    call,          \* the last SkillSystem call: [op, args, ret]
    pre,           \* the ledger state that call started from
    sinceUse       \* per skill index: deltaTime accumulated since the last
                   \* successful use (capped at the cooldown), or NoUse

VARIABLES
    detectionRange,  \* EnemyAIBehavior::detectionRange
    attackRange,     \* EnemyAIBehavior::attackRange
    currentHealth,   \* EnemyAIBehavior::currentHealth
    maxHealth,       \* EnemyAIBehavior::maxHealth
    aiCall,          \* the last EnemyAIBehavior call:
                     \* [op, args, los, state, value]
    preHealth,       \* currentHealth when aiCall started
    everDead         \* DecideAction has returned DEAD at least once

VARIABLES
    dmgCall          \* the last CalculateDamage call:
                     \* [op, power, defense, critical, ret]

VARIABLES
    combatCall       \* the last CombatSystem call:
                     \* [op, a, b, draw, hit, inBounds, ret]

VARIABLES
    mission,         \* the MissionSystem::Mission the host reports on
    missionCall      \* the last MissionSystem call: [op, complete, ret]

skillVars == <<skills, currentMana, maxMana, call, pre, sinceUse>>

enemyVars == <<detectionRange, attackRange, currentHealth, maxHealth,
               aiCall, preHealth, everDead>>

damageVars == <<dmgCall>>

combatVars == <<combatCall>>

missionVars == <<mission, missionCall>>

vars == <<skillVars, enemyVars, damageVars, combatVars, missionVars>>

\* What the calls on one component leave alone.
notSkillVars == <<enemyVars, damageVars, combatVars, missionVars>>

notEnemyVars == <<skillVars, damageVars, combatVars, missionVars>>

notDamageVars == <<skillVars, enemyVars, combatVars, missionVars>>

notCombatVars == <<skillVars, enemyVars, damageVars, missionVars>>

notMissionVars == <<skillVars, enemyVars, damageVars, combatVars>>

\* ------------------------------------------------------------ SkillSystem

\* struct Skill
Skill(id, cd, rem, cost) ==
    [skillId |-> id, cooldown |-> F(cd), cooldownRemaining |-> F(rem),
     manaCost |-> F(cost), damage |-> F(10), isActive |-> TRUE]

\* The ledgers the host may have registered before play begins: ids are
\* unique within a ledger, every cooldownRemaining starts within
\* 0..cooldown and no manaCost is negative.
Ledgers ==
    { <<Skill(1, 5, 0, 20), Skill(2, 2, 0, 100)>>,
      <<Skill(3, 0, 0, 0), Skill(1, 3, 3, 50)>>,
      <<Skill(2, 1, 1, 120), Skill(3, 4, 2, 10)>> }

\* The ids the host probes with; 9 is registered in no ledger.
SkillIds == {1, 2, 3, 9}

DeltaTimes == { F(i) : i \in 0..MaxDelta }

RegenRates == { F(5 * i) : i \in 0..MaxRate }

NoUse == -1

\* Index of the first skill with this id, 0 when there is none (the
\* range-for scan of CanUseSkill).
FindSkill(ss, id) ==
    IF \E i \in 1..Len(ss) : ss[i].skillId = id
    THEN CHOOSE i \in 1..Len(ss) :
            /\ ss[i].skillId = id
            /\ \A j \in 1..(i - 1) : ss[j].skillId # id
    ELSE 0

\* CanUseSkillIn with the mana test written > instead of >=.
CanUseSkillInStrict(ss, mana, id) ==
    LET i == FindSkill(ss, id) IN
    IF i = 0 THEN FALSE
    ELSE ss[i].cooldownRemaining <= 0 /\ mana > ss[i].manaCost

\* bool CanUseSkill(int skillId), as a function of the state it reads.
CanUseSkillIn(ss, mana, id) ==
    LET i == FindSkill(ss, id) IN
    IF i = 0 THEN FALSE
    ELSE ss[i].cooldownRemaining <= 0 /\ mana >= ss[i].manaCost

\* Index of the skill UseSkill commits on: the first one of the scan with
\* skill.skillId == skillId && CanUseSkill(skillId); 0 when the loop ends
\* without a break.
UseIndex(ss, mana, id) ==
    LET hits == { i \in 1..Len(ss) :
                    ss[i].skillId = id /\ CanUseSkillIn(ss, mana, id) }
    IN IF hits = {} THEN 0
       ELSE CHOOSE i \in hits : \A j \in hits : i <= j

\* What a call starts from.
Snapshot == [skills |-> skills, mana |-> currentMana, sinceUse |-> sinceUse]

SkillInitWith(ledger) ==
    /\ skills = ledger
    /\ currentMana = F(100)
    /\ maxMana = F(100)
    /\ call = [op |-> "SkillSystem", args |-> <<>>, ret |-> FALSE]
    /\ sinceUse = [i \in 1..Len(skills) |-> NoUse]
    /\ pre = Snapshot

CanUseSkill(id) ==
    /\ call' = [op |-> "CanUseSkill", args |-> <<id>>,
                ret |-> CanUseSkillIn(skills, currentMana, id)]
    /\ pre' = Snapshot
    /\ UNCHANGED <<skills, currentMana, maxMana, sinceUse>>

\* UseSkill that deducts the mana and forgets to start the cooldown.
UseSkillNoCooldown(id) ==
    LET i == UseIndex(skills, currentMana, id) IN
    /\ IF i = 0
       THEN UNCHANGED <<skills, currentMana, sinceUse>>
       ELSE /\ currentMana' = currentMana - skills[i].manaCost
            /\ sinceUse' = [sinceUse EXCEPT ![i] = 0]
            /\ UNCHANGED skills
    /\ call' = [op |-> "UseSkill", args |-> <<id>>, ret |-> FALSE]
    /\ pre' = Snapshot
    /\ UNCHANGED maxMana

\* UseSkill without the CanUseSkill re-check: commits on the first id match.
UseSkillNoRecheck(id) ==
    LET i == FindSkill(skills, id) IN
    /\ IF i = 0
       THEN UNCHANGED <<skills, currentMana, sinceUse>>
       ELSE /\ currentMana' = currentMana - skills[i].manaCost
            /\ skills' = [skills EXCEPT
                            ![i].cooldownRemaining = skills[i].cooldown]
            /\ sinceUse' = [sinceUse EXCEPT ![i] = 0]
    /\ call' = [op |-> "UseSkill", args |-> <<id>>, ret |-> FALSE]
    /\ pre' = Snapshot
    /\ UNCHANGED maxMana

\* UseSkill with a global cooldown: a successful use restarts the cooldown of
\* every skill of the ledger.
UseSkillGlobalCooldown(id) ==
    LET i == UseIndex(skills, currentMana, id) IN
    /\ IF i = 0
       THEN UNCHANGED <<skills, currentMana, sinceUse>>
       ELSE /\ currentMana' = currentMana - skills[i].manaCost
            /\ skills' = [j \in 1..Len(skills) |->
                            [skills[j] EXCEPT !.cooldownRemaining =
                                skills[j].cooldown]]
            /\ sinceUse' = [sinceUse EXCEPT ![i] = 0]
    /\ call' = [op |-> "UseSkill", args |-> <<id>>, ret |-> FALSE]
    /\ pre' = Snapshot
    /\ UNCHANGED maxMana

UseSkill(id) ==
    LET i == UseIndex(skills, currentMana, id) IN
    /\ IF i = 0
       THEN UNCHANGED <<skills, currentMana, sinceUse>>
       ELSE /\ currentMana' = currentMana - skills[i].manaCost
            /\ skills' = [skills EXCEPT
                            ![i].cooldownRemaining = skills[i].cooldown]
            /\ sinceUse' = [sinceUse EXCEPT ![i] = 0]
    /\ call' = [op |-> "UseSkill", args |-> <<id>>, ret |-> FALSE]
    /\ pre' = Snapshot
    /\ UNCHANGED maxMana

\* UpdateCooldowns without the std::max(0.0f, ..) clamp.
UpdateCooldownsNoClamp(deltaTime) ==
    /\ skills' = [i \in 1..Len(skills) |->
                    [skills[i] EXCEPT !.cooldownRemaining =
                        skills[i].cooldownRemaining - deltaTime]]
    /\ sinceUse' = [i \in 1..Len(skills) |->
                      IF sinceUse[i] = NoUse THEN NoUse
                      ELSE Min(skills[i].cooldown, sinceUse[i] + deltaTime)]
    /\ call' = [op |-> "UpdateCooldowns", args |-> <<deltaTime>>, ret |-> FALSE]
    /\ pre' = Snapshot
    /\ UNCHANGED <<currentMana, maxMana>>

\* UpdateCooldowns iterating by value (auto skill instead of auto& skill):
\* the ledger is never written.
UpdateCooldownsByValue(deltaTime) ==
    /\ sinceUse' = [i \in 1..Len(skills) |->
                      IF sinceUse[i] = NoUse THEN NoUse
                      ELSE Min(skills[i].cooldown, sinceUse[i] + deltaTime)]
    /\ call' = [op |-> "UpdateCooldowns", args |-> <<deltaTime>>, ret |-> FALSE]
    /\ pre' = Snapshot
    /\ UNCHANGED <<skills, currentMana, maxMana>>

UpdateCooldowns(deltaTime) ==
    /\ skills' = [i \in 1..Len(skills) |->
                    [skills[i] EXCEPT !.cooldownRemaining =
                        Max(0, skills[i].cooldownRemaining - deltaTime)]]
    /\ sinceUse' = [i \in 1..Len(skills) |->
                      IF sinceUse[i] = NoUse THEN NoUse
                      ELSE Min(skills[i].cooldown, sinceUse[i] + deltaTime)]
    /\ call' = [op |-> "UpdateCooldowns", args |-> <<deltaTime>>, ret |-> FALSE]
    /\ pre' = Snapshot
    /\ UNCHANGED <<currentMana, maxMana>>

\* RegenerateMana without the std::min(maxMana, ..) clamp.
RegenerateManaNoClamp(regenRate, deltaTime) ==
    /\ currentMana' = currentMana + FMul(regenRate, deltaTime)
    /\ call' = [op |-> "RegenerateMana", args |-> <<regenRate, deltaTime>>,
                ret |-> FALSE]
    /\ pre' = Snapshot
    /\ UNCHANGED <<skills, maxMana, sinceUse>>

RegenerateMana(regenRate, deltaTime) ==
    /\ currentMana' = Min(maxMana, currentMana + FMul(regenRate, deltaTime))
    /\ call' = [op |-> "RegenerateMana", args |-> <<regenRate, deltaTime>>,
                ret |-> FALSE]
    /\ pre' = Snapshot
    /\ UNCHANGED <<skills, maxMana, sinceUse>>

SkillInit == \E ledger \in Ledgers : SkillInitWith(ledger)

\* ------------------------------------------------------------ EnemyAIBehavior

\* enum AIState
AIState == {"IDLE", "PATROL", "CHASE", "ATTACK", "STUNNED", "DEAD"}

\* The maxHp values enemies are constructed with.
MaxHps == {F(5), F(10), F(100)}

\* The readings the host passes to DecideAction.
Distances == {F(0), F(2), F(3), F(10), F(15), F(20)}

PlayerHealths == {F(0), F(100)}

\* The amounts the host passes to TakeDamage and Heal.
Amounts == { F(i) : i \in 0..MaxAmount }

\* EnemyAIBehavior(float maxHp)
EnemyInitWith(maxHp) ==
    /\ maxHealth = maxHp
    /\ currentHealth = maxHp
    /\ detectionRange = F(15)
    /\ attackRange = F(3)
    /\ aiCall = [op |-> "EnemyAIBehavior", args |-> <<maxHp>>, los |-> FALSE,
                 state |-> "none", value |-> 0]
    /\ preHealth = maxHp
    /\ everDead = FALSE

EnemyInit == \E maxHp \in MaxHps : EnemyInitWith(maxHp)

\* The decision tree with the proximity tests ahead of the low-health test.
DecisionProximityFirst(distanceToPlayer, playerHealth, hasLineOfSight) ==
    IF currentHealth <= 0 THEN "DEAD"
    ELSE IF distanceToPlayer < attackRange /\ hasLineOfSight THEN "ATTACK"
    ELSE IF distanceToPlayer < detectionRange /\ hasLineOfSight THEN "CHASE"
    ELSE IF currentHealth < FMul(maxHealth, Q \div 5) THEN "STUNNED"
    ELSE "PATROL"

\* The decision tree falling back to IDLE instead of PATROL.
DecisionIdleDefault(distanceToPlayer, playerHealth, hasLineOfSight) ==
    IF currentHealth <= 0 THEN "DEAD"
    ELSE IF currentHealth < FMul(maxHealth, Q \div 5) THEN "STUNNED"
    ELSE IF distanceToPlayer < attackRange /\ hasLineOfSight THEN "ATTACK"
    ELSE IF distanceToPlayer < detectionRange /\ hasLineOfSight THEN "CHASE"
    ELSE "IDLE"

\* The value DecideAction returns; Q \div 5 is the literal 0.2f.
Decision(distanceToPlayer, playerHealth, hasLineOfSight) ==
    IF currentHealth <= 0 THEN "DEAD"
    ELSE IF currentHealth < FMul(maxHealth, Q \div 5) THEN "STUNNED"
    ELSE IF distanceToPlayer < attackRange /\ hasLineOfSight THEN "ATTACK"
    ELSE IF distanceToPlayer < detectionRange /\ hasLineOfSight THEN "CHASE"
    ELSE "PATROL"

DecideAction(distanceToPlayer, playerHealth, hasLineOfSight) ==
    LET r == Decision(distanceToPlayer, playerHealth, hasLineOfSight) IN
    /\ aiCall' = [op |-> "DecideAction",
                  args |-> <<distanceToPlayer, playerHealth>>,
                  los |-> hasLineOfSight, state |-> r, value |-> 0]
    /\ preHealth' = currentHealth
    /\ everDead' = (everDead \/ r = "DEAD")
    /\ UNCHANGED <<detectionRange, attackRange, currentHealth, maxHealth>>

TakeDamage(damageAmount) ==
    /\ currentHealth' = Max(0, currentHealth - damageAmount)
    /\ aiCall' = [op |-> "TakeDamage", args |-> <<damageAmount>>,
                  los |-> FALSE, state |-> "none", value |-> 0]
    /\ preHealth' = currentHealth
    /\ UNCHANGED <<detectionRange, attackRange, maxHealth, everDead>>

\* Heal without the std::min(maxHealth, ..) clamp.
HealNoClamp(healAmount) ==
    /\ currentHealth' = currentHealth + healAmount
    /\ aiCall' = [op |-> "Heal", args |-> <<healAmount>>,
                  los |-> FALSE, state |-> "none", value |-> 0]
    /\ preHealth' = currentHealth
    /\ UNCHANGED <<detectionRange, attackRange, maxHealth, everDead>>

Heal(healAmount) ==
    /\ currentHealth' = Min(maxHealth, currentHealth + healAmount)
    /\ aiCall' = [op |-> "Heal", args |-> <<healAmount>>,
                  los |-> FALSE, state |-> "none", value |-> 0]
    /\ preHealth' = currentHealth
    /\ UNCHANGED <<detectionRange, attackRange, maxHealth, everDead>>

GetHealthPercent ==
    /\ aiCall' = [op |-> "GetHealthPercent", args |-> <<>>, los |-> FALSE,
                  state |-> "none", value |-> FDiv(currentHealth, maxHealth)]
    /\ preHealth' = currentHealth
    /\ UNCHANGED <<detectionRange, attackRange, currentHealth, maxHealth,
                   everDead>>

\* ------------------------------------------------------------ CalculateDamage

\* The inputs the host passes to CalculateDamage.
Powers == { F(i) : i \in 0..MaxPower }

Defenses == {F(-50), F(0), F(50), F(99), F(100), F(101), F(150), F(200)}

DamageInit ==
    dmgCall = [op |-> "none", power |-> 0, defense |-> 0, critical |-> FALSE,
               ret |-> 0]

\* CalculateDamage returning the raw product, without std::max(1.0f, ..).
DamageNoFloor(baseAttackPower, targetDefense, isCritical) ==
    LET damage == FMul(baseAttackPower, F(1) - FMul(targetDefense, Q \div 100))
    IN IF isCritical THEN FMul(damage, (3 * Q) \div 2) ELSE damage

\* CalculateDamage with the floor written 0.0f instead of 1.0f.
DamageFloorZero(baseAttackPower, targetDefense, isCritical) ==
    LET damage == FMul(baseAttackPower, F(1) - FMul(targetDefense, Q \div 100))
        scaled == IF isCritical THEN FMul(damage, (3 * Q) \div 2) ELSE damage
    IN Max(F(0), scaled)

\* The value CalculateDamage returns; Q \div 100 is the literal 0.01f and
\* (3 * Q) \div 2 the literal 1.5f.
Damage(baseAttackPower, targetDefense, isCritical) ==
    LET damage == FMul(baseAttackPower, F(1) - FMul(targetDefense, Q \div 100))
        scaled == IF isCritical THEN FMul(damage, (3 * Q) \div 2) ELSE damage
    IN Max(F(1), scaled)

CalculateDamage(baseAttackPower, targetDefense, isCritical) ==
    dmgCall' = [op |-> "CalculateDamage", power |-> baseAttackPower,
                defense |-> targetDefense, critical |-> isCritical,
                ret |-> Damage(baseAttackPower, targetDefense, isCritical)]

\* ------------------------------------------------------------ CombatSystem

\* enum Element
FIRE == 0

ICE == 1

LIGHTNING == 2

NULL_ELEMENT == 3

Elements == {FIRE, ICE, LIGHTNING, NULL_ELEMENT}

\* rand() % 100 is in 0..RandMod - 1.
RandMod == 100

\* The stats the host passes to CalculateHit.
Accuracies == {F(0), F(100), F(200)}

Evasions == {F(5), F(50), F(90)}

\* What a read outside float matrix[3][3] may yield.
StrayFloats == { (i * Q) \div 2 : i \in (0 - MaxStray)..MaxStray }

CombatInit ==
    combatCall = [op |-> "none", a |-> 0, b |-> 0, draw |-> 0, hit |-> FALSE,
                  inBounds |-> TRUE, ret |-> 0]

\* hitChance without the clamp to 10-95%.
HitChanceNoClamp(attackAccuracy, targetEvasion) ==
    FDiv(attackAccuracy - targetEvasion, F(100))

\* hitChance of CalculateHit; Q \div 10 is the literal 0.1f and
\* (19 * Q) \div 20 the literal 0.95f.
HitChance(attackAccuracy, targetEvasion) ==
    Max(Q \div 10,
        Min((19 * Q) \div 20, FDiv(attackAccuracy - targetEvasion, F(100))))

\* CalculateHit; draw is the value of rand() % 100.
CalculateHit(attackAccuracy, targetEvasion) ==
    \E draw \in 0..(RandMod - 1) :
        LET hitChance == HitChance(attackAccuracy, targetEvasion) IN
        combatCall' = [op |-> "CalculateHit", a |-> attackAccuracy,
                       b |-> targetEvasion, draw |-> draw,
                       hit |-> FDiv(F(draw), F(100)) < hitChance,
                       inBounds |-> TRUE, ret |-> hitChance]

\* The table with rows and columns exchanged.
MatrixTransposed ==
    << <<F(1), Q \div 2, (3 * Q) \div 2>>,
       <<(3 * Q) \div 2, F(1), Q \div 2>>,
       <<Q \div 2, (3 * Q) \div 2, F(1)>> >>

\* float matrix[3][3]; row and column e of the source are e + 1 here.
Matrix ==
    << <<F(1), (3 * Q) \div 2, Q \div 2>>,
       <<Q \div 2, F(1), (3 * Q) \div 2>>,
       <<(3 * Q) \div 2, Q \div 2, F(1)>> >>

\* The indexes matrix[attackElement][targetElement] are inside the table.
InTable(attackElement, targetElement) ==
    attackElement \in 0..2 /\ targetElement \in 0..2

\* The values GetElementalMultiplier may return: reading
\* matrix[attackElement][NULL_ELEMENT] is outside the row (undefined
\* behaviour), so any float may come back.
ElementalMultipliers(attackElement, targetElement) ==
    IF attackElement = NULL_ELEMENT THEN {F(1)}
    ELSE IF InTable(attackElement, targetElement)
         THEN {Matrix[attackElement + 1][targetElement + 1]}
         ELSE StrayFloats

GetElementalMultiplier(attackElement, targetElement) ==
    \E r \in ElementalMultipliers(attackElement, targetElement) :
        combatCall' = [op |-> "GetElementalMultiplier", a |-> attackElement,
                       b |-> targetElement, draw |-> 0, hit |-> FALSE,
                       inBounds |-> (attackElement = NULL_ELEMENT
                                     \/ InTable(attackElement, targetElement)),
                       ret |-> r]

\* ------------------------------------------------------------ MissionSystem

\* struct Mission, the two fields the progress functions read.
Mission(count, eliminated) ==
    [targetCount |-> count, targetsEliminated |-> eliminated]

Missions ==
    { Mission(t, e) : t \in 0..MaxTargets, e \in 0..(MaxTargets + 2) }

MissionInitWith(m) ==
    /\ mission = m
    /\ missionCall = [op |-> "none", complete |-> FALSE, ret |-> 0]

MissionInit == \E m \in Missions : MissionInitWith(m)

\* IsMissionComplete comparing with > instead of >=.
IsCompleteStrict(m) == m.targetsEliminated > m.targetCount

\* The value IsMissionComplete returns.
IsComplete(m) == m.targetsEliminated >= m.targetCount

\* GetCompletionPercentage without the targetCount == 0 guard and with the
\* ratio taken the wrong way round.
CompletionPercentageInverted(m) ==
    IF m.targetsEliminated = 0 THEN F(0)
    ELSE FMul(FDiv(F(m.targetCount), F(m.targetsEliminated)), F(100))

\* The value GetCompletionPercentage returns.
CompletionPercentage(m) ==
    IF m.targetCount = 0 THEN F(0)
    ELSE FMul(FDiv(F(m.targetsEliminated), F(m.targetCount)), F(100))

IsMissionComplete ==
    /\ missionCall' = [op |-> "IsMissionComplete",
                       complete |-> IsComplete(mission), ret |-> 0]
    /\ UNCHANGED mission

GetCompletionPercentage ==
    /\ missionCall' = [op |-> "GetCompletionPercentage", complete |-> FALSE,
                       ret |-> CompletionPercentage(mission)]
    /\ UNCHANGED mission

\* ------------------------------------------------------------ specifications

\* The skill ledger of one player character.
Init ==
    /\ SkillInit
    /\ EnemyInitWith(F(100))
    /\ DamageInit
    /\ CombatInit
    /\ MissionInitWith(Mission(10, 0))

Next ==
    \/ \E id \in SkillIds :
          CanUseSkill(id) /\ UNCHANGED notSkillVars
    \/ \E id \in SkillIds :
          UseSkill(id) /\ UNCHANGED notSkillVars
    \/ \E dt \in DeltaTimes :
          UpdateCooldowns(dt) /\ UNCHANGED notSkillVars
    \/ \E r \in RegenRates, dt \in DeltaTimes :
          RegenerateMana(r, dt) /\ UNCHANGED notSkillVars

Spec == Init /\ [][Next]_vars

\* The skill ledger with a host that also passes negative deltaTime to
\* UpdateCooldowns.  To keep the cooldowns bounded the host does so only
\* while every cooldownRemaining is within its cooldown.
NegativeDeltaTimes == { F(0 - i) : i \in 1..MaxDelta }

NegativeDeltaNext ==
    \/ Next
    \/ \E dt \in NegativeDeltaTimes :
          /\ \A i \in 1..Len(skills) :
                skills[i].cooldownRemaining <= skills[i].cooldown
          /\ UpdateCooldowns(dt)
          /\ UNCHANGED notSkillVars

NegativeDeltaSpec == Init /\ [][NegativeDeltaNext]_vars

\* The skill ledger with a host that keeps ticking: every tick passes a
\* positive deltaTime to UpdateCooldowns and a positive regenRate and
\* deltaTime to RegenerateMana, and neither kind of tick is postponed forever.
PositiveDeltaTimes == DeltaTimes \ {0}

PositiveRegenRates == RegenRates \ {0}

TickCooldowns ==
    \E dt \in PositiveDeltaTimes : UpdateCooldowns(dt) /\ UNCHANGED notSkillVars

TickMana ==
    \E r \in PositiveRegenRates, dt \in PositiveDeltaTimes :
        RegenerateMana(r, dt) /\ UNCHANGED notSkillVars

TickUse == \E id \in SkillIds : UseSkill(id) /\ UNCHANGED notSkillVars

TickNext == TickCooldowns \/ TickMana \/ TickUse

TickSpec ==
    Init /\ [][TickNext]_vars /\ WF_vars(TickCooldowns) /\ WF_vars(TickMana)

\* One enemy.
EnemySpecInit ==
    /\ EnemyInit
    /\ SkillInitWith(<<Skill(1, 5, 0, 20), Skill(2, 2, 0, 100)>>)
    /\ DamageInit
    /\ CombatInit
    /\ MissionInitWith(Mission(10, 0))

EnemySpecNext ==
    \/ \E d \in Distances, p \in PlayerHealths, los \in BOOLEAN :
          DecideAction(d, p, los) /\ UNCHANGED notEnemyVars
    \/ \E a \in Amounts :
          TakeDamage(a) /\ UNCHANGED notEnemyVars
    \/ \E a \in Amounts :
          Heal(a) /\ UNCHANGED notEnemyVars
    \/ GetHealthPercent /\ UNCHANGED notEnemyVars

EnemySpec == EnemySpecInit /\ [][EnemySpecNext]_vars

\* The damage formula on its own.
DamageSpecInit ==
    /\ DamageInit
    /\ SkillInitWith(<<Skill(1, 5, 0, 20), Skill(2, 2, 0, 100)>>)
    /\ EnemyInitWith(F(100))
    /\ CombatInit
    /\ MissionInitWith(Mission(10, 0))

DamageSpecNext ==
    \E b \in Powers, d \in Defenses, c \in BOOLEAN :
        CalculateDamage(b, d, c) /\ UNCHANGED notDamageVars

DamageSpec == DamageSpecInit /\ [][DamageSpecNext]_vars

\* One enemy under attack: the host applies
\* TakeDamage(CalculateDamage(power, defense, critical)) again and again,
\* asks DecideAction every tick and never calls Heal.
AttackHps == {F(5), F(10)}

AttackPowers == {F(0), F(1), F(3)}

AttackDefenses == {F(0), F(100), F(200)}

Attack(baseAttackPower, targetDefense, isCritical) ==
    /\ CalculateDamage(baseAttackPower, targetDefense, isCritical)
    /\ TakeDamage(Damage(baseAttackPower, targetDefense, isCritical))

AttackStep ==
    \E b \in AttackPowers, d \in AttackDefenses, c \in BOOLEAN :
        Attack(b, d, c) /\ UNCHANGED <<skillVars, combatVars, missionVars>>

DecideStep ==
    \E d \in {F(2), F(20)}, los \in BOOLEAN :
        DecideAction(d, F(100), los) /\ UNCHANGED notEnemyVars

AttackSpecInit ==
    /\ \E maxHp \in AttackHps : EnemyInitWith(maxHp)
    /\ SkillInitWith(<<Skill(1, 5, 0, 20), Skill(2, 2, 0, 100)>>)
    /\ DamageInit
    /\ CombatInit
    /\ MissionInitWith(Mission(10, 0))

AttackSpecNext == AttackStep \/ DecideStep

AttackSpec ==
    /\ AttackSpecInit
    /\ [][AttackSpecNext]_vars
    /\ WF_vars(AttackStep)
    /\ WF_vars(DecideStep)

\* The static functions of CombatSystem.
CombatSpecInit ==
    /\ CombatInit
    /\ SkillInitWith(<<Skill(1, 5, 0, 20), Skill(2, 2, 0, 100)>>)
    /\ EnemyInitWith(F(100))
    /\ DamageInit
    /\ MissionInitWith(Mission(10, 0))

CombatSpecNext ==
    \/ \E acc \in Accuracies, eva \in Evasions :
          CalculateHit(acc, eva) /\ UNCHANGED notCombatVars
    \/ \E a \in Elements, t \in Elements :
          GetElementalMultiplier(a, t) /\ UNCHANGED notCombatVars

CombatSpec == CombatSpecInit /\ [][CombatSpecNext]_vars

\* The progress functions of MissionSystem on one mission.
MissionSpecInit ==
    /\ MissionInit
    /\ SkillInitWith(<<Skill(1, 5, 0, 20), Skill(2, 2, 0, 100)>>)
    /\ EnemyInitWith(F(100))
    /\ DamageInit
    /\ CombatInit

MissionSpecNext ==
    \/ IsMissionComplete /\ UNCHANGED notMissionVars
    \/ GetCompletionPercentage /\ UNCHANGED notMissionVars

MissionSpec == MissionSpecInit /\ [][MissionSpecNext]_vars

\* ------------------------------------------------------------ properties

\* The skill indexes of ledger ss that carry this id.
WithId(ss, id) == { i \in 1..Len(ss) : ss[i].skillId = id }

\* The last call was op.
Called(op) == call.op = op

\* C1: whenever UseSkill(id) is called in a state where CanUseSkill(id) is
\* true, currentMana afterwards is the mana before minus the skill's
\* manaCost, and the skill's cooldownRemaining is its cooldown duration.
C1_UseSkillCommits ==
    (Called("UseSkill") /\ CanUseSkillIn(pre.skills, pre.mana, call.args[1]))
    => \E i \in WithId(pre.skills, call.args[1]) :
          /\ currentMana = pre.mana - pre.skills[i].manaCost
          /\ skills[i].cooldownRemaining = pre.skills[i].cooldown
          /\ skills[i].cooldown = pre.skills[i].cooldown

\* C1 witness: a UseSkill that succeeded with currentMana == manaCost > 0
\* and left the mana at 0.
C1_Witness ==
    /\ Called("UseSkill")
    /\ CanUseSkillIn(pre.skills, pre.mana, call.args[1])
    /\ \E i \in WithId(pre.skills, call.args[1]) :
          /\ pre.mana = pre.skills[i].manaCost
          /\ pre.mana > 0
          /\ skills[i].cooldownRemaining > 0
    /\ currentMana = 0

\* C2: UseSkill(id) on an id that is not in the ledger, or on a skill with
\* cooldownRemaining > 0 or with currentMana < manaCost, leaves currentMana
\* and the whole ledger as they were.
C2_UnusableUseSkillIsNoOp ==
    (/\ Called("UseSkill")
     /\ \/ WithId(pre.skills, call.args[1]) = {}
        \/ \E i \in WithId(pre.skills, call.args[1]) :
              \/ pre.skills[i].cooldownRemaining > 0
              \/ pre.mana < pre.skills[i].manaCost)
    => (skills = pre.skills /\ currentMana = pre.mana)

\* C2 witness: a repeated UseSkill on a skill that was used before, is
\* still on cooldown and could be paid for; nothing has changed.
C2_Witness ==
    /\ Called("UseSkill")
    /\ \E i \in WithId(pre.skills, call.args[1]) :
          /\ pre.sinceUse[i] # NoUse
          /\ pre.skills[i].cooldownRemaining > 0
          /\ pre.mana >= pre.skills[i].manaCost
          /\ pre.skills[i].manaCost > 0
    /\ skills = pre.skills
    /\ currentMana = pre.mana

\* C3: CanUseSkill(id) returns true iff id is a registered skill with
\* cooldownRemaining == 0 and currentMana >= manaCost (hence false for
\* every id that is not in the ledger).
C3_CanUseSkillIff ==
    Called("CanUseSkill")
    => (call.ret <=> \E i \in WithId(skills, call.args[1]) :
                        /\ skills[i].cooldownRemaining = 0
                        /\ currentMana >= skills[i].manaCost)

\* C3 witness: CanUseSkill returned true for a skill that had been used,
\* has cooled down, and whose manaCost is exactly the current mana.
C3_Witness ==
    /\ Called("CanUseSkill")
    /\ call.ret
    /\ \E i \in WithId(skills, call.args[1]) :
          /\ sinceUse[i] # NoUse
          /\ skills[i].cooldown > 0
          /\ currentMana = skills[i].manaCost

\* C4: every skill has 0 <= cooldownRemaining <= cooldown.
C4_CooldownInRange ==
    \A i \in 1..Len(skills) :
        /\ 0 <= skills[i].cooldownRemaining
        /\ skills[i].cooldownRemaining <= skills[i].cooldown

\* C4 witness: UpdateCooldowns with a deltaTime larger than what remained
\* of a running cooldown; the remainder was clamped to 0.
C4_Witness ==
    /\ Called("UpdateCooldowns")
    /\ \E i \in 1..Len(skills) :
          /\ pre.skills[i].cooldownRemaining > 0
          /\ pre.skills[i].cooldownRemaining < call.args[1]
          /\ skills[i].cooldownRemaining = 0

\* C5: with no negative manaCost in the ledger, 0 <= currentMana <= maxMana.
C5_ManaInRange ==
    (\A i \in 1..Len(skills) : skills[i].manaCost >= 0)
    => (0 <= currentMana /\ currentMana <= maxMana)

\* C5 witness: RegenerateMana whose increment would have passed maxMana,
\* from a mana that an earlier UseSkill had lowered; the result is maxMana.
C5_Witness ==
    /\ Called("RegenerateMana")
    /\ pre.mana < maxMana
    /\ pre.mana + FMul(call.args[1], call.args[2]) > maxMana
    /\ currentMana = maxMana

\* C6: for a skill with cooldown c > 0 that has been used, with t the
\* deltaTime accumulated by UpdateCooldowns since that use: while t < c the
\* skill is on cooldown and UseSkill of it changes nothing; once t >= c its
\* cooldownRemaining is 0 and a UseSkill of it with currentMana >= manaCost
\* succeeds.
C6_CooldownGatesReuse ==
    /\ \A i \in 1..Len(skills) :
          (sinceUse[i] # NoUse /\ skills[i].cooldown > 0)
          => /\ sinceUse[i] < skills[i].cooldown
                => skills[i].cooldownRemaining > 0
             /\ sinceUse[i] >= skills[i].cooldown
                => skills[i].cooldownRemaining = 0
    /\ Called("UseSkill")
       => \A i \in WithId(pre.skills, call.args[1]) :
             (pre.sinceUse[i] # NoUse /\ pre.skills[i].cooldown > 0)
             => /\ pre.sinceUse[i] < pre.skills[i].cooldown
                   => (skills = pre.skills /\ currentMana = pre.mana)
                /\ (/\ pre.sinceUse[i] >= pre.skills[i].cooldown
                    /\ pre.mana >= pre.skills[i].manaCost)
                   => /\ currentMana = pre.mana - pre.skills[i].manaCost
                      /\ skills[i].cooldownRemaining = skills[i].cooldown
                      /\ sinceUse[i] = 0

\* C6 witness: a second successful UseSkill of a skill with a positive
\* cooldown and a positive manaCost, made once the UpdateCooldowns calls
\* since its first use had added up to the cooldown.
C6_Witness ==
    /\ Called("UseSkill")
    /\ \E i \in WithId(pre.skills, call.args[1]) :
          /\ pre.sinceUse[i] # NoUse
          /\ pre.skills[i].cooldown > 0
          /\ pre.sinceUse[i] >= pre.skills[i].cooldown
          /\ pre.skills[i].manaCost > 0
          /\ currentMana = pre.mana - pre.skills[i].manaCost
          /\ skills[i].cooldownRemaining = skills[i].cooldown

\* The last EnemyAIBehavior call was op.
AiCalled(op) == aiCall.op = op

\* C7: DecideAction returns DEAD iff currentHealth <= 0; otherwise STUNNED
\* iff currentHealth < 0.2 * maxHealth (5 * currentHealth < maxHealth),
\* whatever the distance and the line of sight; otherwise ATTACK iff
\* distance < attackRange with line of sight; otherwise CHASE iff
\* distance < detectionRange with line of sight; otherwise PATROL.
C7_DecisionPriority ==
    AiCalled("DecideAction")
    => LET r == aiCall.state
           dead == currentHealth <= 0
           low == 5 * currentHealth < maxHealth
           near == aiCall.args[1] < attackRange /\ aiCall.los
           seen == aiCall.args[1] < detectionRange /\ aiCall.los
       IN /\ r = "DEAD" <=> dead
          /\ ~dead => (r = "STUNNED" <=> low)
          /\ (~dead /\ ~low) => (r = "ATTACK" <=> near)
          /\ (~dead /\ ~low /\ ~near) => (r = "CHASE" <=> seen)
          /\ (~dead /\ ~low /\ ~near /\ ~seen) => r = "PATROL"

\* C7 witness: an enemy below 20% of its health returned STUNNED although
\* the player was within attackRange and in line of sight.
C7_Witness ==
    /\ AiCalled("DecideAction")
    /\ aiCall.state = "STUNNED"
    /\ currentHealth > 0
    /\ aiCall.args[1] < attackRange
    /\ aiCall.los

\* C8: once DecideAction has returned DEAD, every later DecideAction
\* returns DEAD.
C8_DeadIsTerminal ==
    (everDead /\ AiCalled("DecideAction")) => aiCall.state = "DEAD"

\* C9: 0 <= currentHealth <= maxHealth, and GetHealthPercent returns a
\* value in [0, 1].
C9_HealthInRange ==
    maxHealth > 0
    => /\ 0 <= currentHealth
       /\ currentHealth <= maxHealth
       /\ AiCalled("GetHealthPercent")
          => (0 <= aiCall.value /\ aiCall.value <= F(1))

\* C9 witness: a Heal whose amount would have passed maxHealth, on an enemy
\* that had been damaged; the health is maxHealth.
C9_Witness ==
    /\ AiCalled("Heal")
    /\ preHealth < maxHealth
    /\ preHealth + aiCall.args[1] > maxHealth
    /\ currentHealth = maxHealth

\* C10: CalculateDamage returns
\* max(1, baseAttackPower * (1 - 0.01 * targetDefense) * (1.5 if critical
\* else 1)), which is at least 1.  With p = power / Q and d = defense / Q
\* the product is power * (100 * Q - defense) * m / (200 * Q * Q) for
\* m = 3 (critical) or 2; both sides are compared multiplied by 200 * Q.
C10_DamageFormula ==
    dmgCall.op = "CalculateDamage"
    => LET m == IF dmgCall.critical THEN 3 ELSE 2
           product == dmgCall.power * (100 * Q - dmgCall.defense) * m
       IN /\ dmgCall.ret * 200 * Q
                = (IF product > 200 * Q * Q THEN product ELSE 200 * Q * Q)
          /\ dmgCall.ret >= F(1)

\* C10 witness: a critical hit with positive power against a defense above
\* 100, where the raw product is negative; the result is 1.
C10_Witness ==
    /\ dmgCall.op = "CalculateDamage"
    /\ dmgCall.power > 0
    /\ dmgCall.defense > F(100)
    /\ dmgCall.critical
    /\ dmgCall.ret = F(1)

\* The last CombatSystem call was op.
CombatCalled(op) == combatCall.op = op

\* The last MissionSystem call was op.
MissionCalled(op) == missionCall.op = op

\* C12: GetElementalMultiplier gives 1.5 for Fire->Ice, Ice->Lightning and
\* Lightning->Fire, 0.5 for the three reverse pairs, 1.0 for the three
\* same-element pairs, and 1.0 for a NULL_ELEMENT attacker against each of
\* the four targets.
C12_ElementalTable ==
    CombatCalled("GetElementalMultiplier")
    => LET a == combatCall.a
           t == combatCall.b
           r == combatCall.ret
       IN /\ (a = FIRE /\ t = ICE) => 2 * r = 3 * F(1)
          /\ (a = ICE /\ t = LIGHTNING) => 2 * r = 3 * F(1)
          /\ (a = LIGHTNING /\ t = FIRE) => 2 * r = 3 * F(1)
          /\ (a = ICE /\ t = FIRE) => 2 * r = F(1)
          /\ (a = LIGHTNING /\ t = ICE) => 2 * r = F(1)
          /\ (a = FIRE /\ t = LIGHTNING) => 2 * r = F(1)
          /\ (a = t /\ a # NULL_ELEMENT) => r = F(1)
          /\ a = NULL_ELEMENT => r = F(1)

\* C12 witness: Lightning against Fire, the pair that closes the cycle,
\* returned 1.5.
C12_Witness ==
    /\ CombatCalled("GetElementalMultiplier")
    /\ combatCall.a = LIGHTNING
    /\ combatCall.b = FIRE
    /\ 2 * combatCall.ret = 3 * F(1)

\* The hit chance in whole percent that C13 states: (accuracy - evasion)
\* clamped to 10..95.
ClampedPercent(accuracy, evasion) ==
    LET d == accuracy - evasion IN
    IF d < F(10) THEN 10 ELSE IF d > F(95) THEN 95 ELSE d \div Q

\* C13: the chance CalculateHit compares against is
\* clamp((accuracy - evasion) / 100, 0.10, 0.95), it returns true iff the
\* draw / 100 is strictly less, and of the 100 draws 0..99 at least 10 and
\* at most 95 give a hit.
C13_HitChanceClamped ==
    CombatCalled("CalculateHit")
    => LET pct == ClampedPercent(combatCall.a, combatCall.b)
           hits == { d \in 0..99 :
                       FDiv(F(d), F(100)) < HitChance(combatCall.a, combatCall.b) }
       IN /\ 100 * combatCall.ret = pct * Q
          /\ combatCall.hit <=> combatCall.draw < pct
          /\ Cardinality(hits) >= 10
          /\ Cardinality(hits) <= 95

\* C13 witness: with evasion above accuracy the chance is the 10% floor;
\* draw 9 hit.
C13_Witness ==
    /\ CombatCalled("CalculateHit")
    /\ combatCall.a < combatCall.b
    /\ combatCall.draw = 9
    /\ combatCall.hit

\* C14: IsMissionComplete is true iff targetsEliminated >= targetCount;
\* GetCompletionPercentage is targetsEliminated / targetCount * 100 (to the
\* resolution 1/Q of the quotient) when targetCount # 0 and exactly 0 when
\* targetCount = 0; targetsEliminated = targetCount > 0 gives exactly 100.
C14_MissionProgress ==
    LET t == mission.targetCount
        e == mission.targetsEliminated
        r == missionCall.ret
    IN /\ MissionCalled("IsMissionComplete")
          => (missionCall.complete <=> e >= t)
       /\ MissionCalled("GetCompletionPercentage")
          => /\ t = 0 => r = 0
             /\ t # 0 => /\ r * t <= 100 * e * Q
                         /\ 100 * e * Q < (r + 100) * t
             /\ (t # 0 /\ e = t) => r = F(100)

\* C14 witness: GetCompletionPercentage on a mission with targetCount 0 and
\* eliminated targets returned 0.
C14_Witness ==
    /\ MissionCalled("GetCompletionPercentage")
    /\ mission.targetCount = 0
    /\ mission.targetsEliminated > 0
    /\ missionCall.ret = 0

\* C18: GetElementalMultiplier reads its table only inside its bounds and
\* returns 0.5, 1.0 or 1.5 for all sixteen element pairs.
C18_ElementalInBounds ==
    CombatCalled("GetElementalMultiplier")
    => /\ combatCall.inBounds
       /\ combatCall.ret \in {Q \div 2, F(1), (3 * Q) \div 2}

\* C20 as stated: whenever IsMissionComplete is true,
\* GetCompletionPercentage is at least 100.
C20_CompleteMeansHundred ==
    (MissionCalled("GetCompletionPercentage") /\ IsComplete(mission))
    => missionCall.ret >= F(100)

\* C20 amended: for a mission with targetCount > 0, whenever
\* IsMissionComplete is true GetCompletionPercentage is at least 100.
C20_CompleteMeansHundredIfTargets ==
    (/\ MissionCalled("GetCompletionPercentage")
     /\ mission.targetCount > 0
     /\ IsComplete(mission))
    => missionCall.ret >= F(100)

\* C20 witness: GetCompletionPercentage returned more than 100 on a mission
\* with more eliminated targets than its positive targetCount.
C20_Witness ==
    /\ MissionCalled("GetCompletionPercentage")
    /\ mission.targetCount > 0
    /\ mission.targetsEliminated > mission.targetCount
    /\ IsComplete(mission)
    /\ missionCall.ret > F(100)

C15_NegativeDeltaHandled ==
    (Called("UpdateCooldowns") /\ call.args[1] < 0)
    => \A i \in 1..Len(skills) :
          /\ skills[i].cooldownRemaining <= pre.skills[i].cooldownRemaining
          /\ 0 <= skills[i].cooldownRemaining
          /\ skills[i].cooldownRemaining <= skills[i].cooldown

\* The index the last UseSkill committed on, 0 when it changed nothing or
\* the last call was not UseSkill.
UsedIndex ==
    IF Called("UseSkill") THEN UseIndex(pre.skills, pre.mana, call.args[1])
    ELSE 0

\* C16: UpdateCooldowns leaves currentMana unchanged, and with deltaTime = 0
\* every cooldownRemaining too; RegenerateMana leaves every skill's
\* cooldownRemaining unchanged; a successful UseSkill(id) leaves the
\* cooldownRemaining of every skill other than id unchanged.
C16_Frame ==
    /\ Called("UpdateCooldowns")
       => /\ currentMana = pre.mana
          /\ call.args[1] = 0 => skills = pre.skills
    /\ Called("RegenerateMana") => skills = pre.skills
    /\ UsedIndex # 0
       => \A j \in 1..Len(skills) :
             pre.skills[j].skillId # call.args[1]
             => skills[j] = pre.skills[j]

\* C16 witness: a successful UseSkill that paid mana while another skill
\* was in the middle of its cooldown.
C16_Witness ==
    /\ UsedIndex # 0
    /\ currentMana < pre.mana
    /\ \E j \in 1..Len(skills) :
          /\ pre.skills[j].skillId # call.args[1]
          /\ pre.skills[j].cooldownRemaining > 0
          /\ pre.skills[j].cooldownRemaining < pre.skills[j].cooldown

\* C17: DecideAction never returns IDLE; its result is one of PATROL, CHASE,
\* ATTACK, STUNNED and DEAD.
C17_NeverIdle ==
    AiCalled("DecideAction")
    => aiCall.state \in {"PATROL", "CHASE", "ATTACK", "STUNNED", "DEAD"}

\* C17 witness: DecideAction fell through every test of the tree (healthy
\* enemy, player in attack range but out of sight) and returned PATROL.
C17_Witness ==
    /\ AiCalled("DecideAction")
    /\ aiCall.state = "PATROL"
    /\ aiCall.args[1] < attackRange
    /\ ~aiCall.los
    /\ currentHealth >= FMul(maxHealth, Q \div 5)

\* Skill i of the ledger can be used now.
Usable(i) == CanUseSkillIn(skills, currentMana, skills[i].skillId)

\* C19: with a host that keeps ticking UpdateCooldowns and RegenerateMana
\* with positive arguments, every skill with 0 <= manaCost <= maxMana that
\* has just been used becomes usable again, unless another skill is used
\* in the meantime.
C19_UsableAgain ==
    \A i \in 1..2 :
        (/\ i <= Len(skills)
         /\ UsedIndex = i
         /\ 0 <= skills[i].manaCost
         /\ skills[i].manaCost <= maxMana)
        ~> (Usable(i) \/ UsedIndex \notin {0, i})

\* C19 witness: a skill with a cooldown and a cost that was used, waited
\* out its cooldown short of mana, and became usable by the last
\* RegenerateMana tick.
C19_Witness ==
    /\ Called("RegenerateMana")
    /\ \E i \in 1..Len(skills) :
          /\ sinceUse[i] # NoUse
          /\ skills[i].cooldown > 0
          /\ skills[i].manaCost > 0
          /\ pre.mana < skills[i].manaCost
          /\ Usable(i)

====
